---- MODULE Spec2Model ----
(***************************************************************************)
(* State-machine model of src/main.py: the survey intake and scoring       *)
(* backend (FastAPI handlers over a relational store).                     *)
(*                                                                         *)
(* Strings that the code transforms (question keys, column names) are      *)
(* sequences of one-character strings, so that str.replace and str.lower   *)
(* are computed character by character.  The Mongolian label texts are     *)
(* opaque to the code; they are written here in a Latin transliteration.   *)
(***************************************************************************)
EXTENDS Integers, Sequences, FiniteSets, TLC

\* ---------------------------------------------------------------- bounds
\* Largest per-question answer value drawn for a submission.
MaxVal == 4
\* Largest user_id drawn for a submission.
MaxUser == 2
\* Total number of requests received in one behaviour.
MaxReq == 2
\* Number of request handlers that may be in flight at once.
NProc == 2
\* The classification is applied on its own to the totals from -BelowZero
\* to MaxSum.
MaxSum == 60
BelowZero == 5

Procs == 1..NProc

\* ------------------------------------------------- question identifiers
ISMA_QUESTIONS ==
  << <<"s","l","e","e","p","_","e","n","o","u","g","h">>,
     <<"a","p","p","e","t","i","t","e","_","c","h","a","n","g","e">>,
     <<"g","u","i","l","t","_","f","e","e","l","i","n","g">>,
     <<"o","v","e","r","t","h","i","n","k","i","n","g">>,
     <<"f","o","c","u","s","_","m","e","m","o","r","y">>,
     <<"n","o","_","h","o","b","b","y","_","t","i","m","e">>,
     <<"m","u","s","c","l","e","_","p","a","i","n">>,
     <<"a","d","d","i","c","t","i","o","n">>,
     <<"w","o","r","k","_","a","t","_","h","o","m","e">>,
     <<"e","n","o","u","g","h","_","t","i","m","e">>,
     <<"i","g","n","o","r","e","_","p","r","o","b","l","e","m","s">>,
     <<"p","e","r","f","e","c","t","i","o","n","i","s","t">>,
     <<"b","a","d","_","t","i","m","e","_","e","s","t","i","m","a","t","e">>,
     <<"o","v","e","r","w","h","e","l","m","e","d">>,
     <<"l","o","w","_","s","e","l","f","_","e","s","t","e","e","m">>,
     <<"i","m","p","a","t","i","e","n","t">>,
     <<"h","u","r","r","i","e","d">>,
     <<"r","o","a","d","_","r","a","g","e">>,
     <<"c","o","m","p","e","t","i","t","i","v","e">>,
     <<"c","r","i","t","i","c","a","l">>,
     <<"d","i","s","t","r","a","c","t","e","d">>,
     <<"l","o","w","_","l","i","b","i","d","o">>,
     <<"t","e","e","t","h","_","g","r","i","n","d","i","n","g">>,
     <<"p","e","r","f","o","r","m","a","n","c","e","_","d","r","o","p">> >>

INSOMNIA_QUESTIONS ==
  << <<"F","a","l","l"," ","A","s","l","e","e","p">>,
     <<"S","t","a","y"," ","A","s","l","e","e","p">>,
     <<"E","a","r","l","y"," ","R","i","s","i","n","g">>,
     <<"S","l","e","e","p"," ","S","a","t","i","s","f","a","c","t","i","o","n">>,
     <<"D","a","i","l","y"," ","I","m","p","a","c","t">>,
     <<"L","i","f","e"," ","Q","u","a","l","i","t","y">>,
     <<"S","l","e","e","p"," ","C","o","n","c","e","r","n">> >>

FATIGUE_QUESTIONS ==
  << <<"S","l","e","e","p"," ","D","i","s","o","r","d","e","r">>,
     <<"W","a","k","i","n","g"," ","F","a","t","i","g","u","e">>,
     <<"F","o","c","u","s"," ","I","s","s","u","e">>,
     <<"M","u","s","c","l","e"," ","P","a","i","n">>,
     <<"B","o","d","y"," ","P","a","i","n">>,
     <<"H","e","a","d"," ","P","a","i","n">>,
     <<"N","e","c","k"," ","S","h","o","u","l","d","e","r"," ","S","t","i","f","f","n","e","s","s">>,
     <<"T","h","r","o","a","t"," ","P","a","i","n">>,
     <<"M","o","t","i","o","n"," ","D","i","z","z","i","n","e","s","s">>,
     <<"E","x","e","r","c","i","s","e"," ","F","a","t","i","g","u","e">>,
     <<"E","y","e"," ","S","e","n","s","i","t","i","v","i","t","y">>,
     <<"N","u","m","b"," ","S","e","n","s","a","t","i","o","n">>,
     <<"A","n","x","i","e","t","y"," ","I","s","s","u","e">>,
     <<"R","e","s","t","l","e","s","s"," ","S","l","e","e","p">>,
     <<"C","o","l","d"," ","S","e","n","s","i","t","i","v","i","t","y">>,
     <<"S","t","o","m","a","c","h"," ","U","p","s","e","t">>,
     <<"A","l","l","e","r","g","i","c"," ","R","e","a","c","t","i","o","n">> >>

IsmaColumns ==
  { <<"s","l","e","e","p","_","e","n","o","u","g","h">>,
    <<"a","p","p","e","t","i","t","e","_","c","h","a","n","g","e">>,
    <<"g","u","i","l","t","_","f","e","e","l","i","n","g">>,
    <<"o","v","e","r","t","h","i","n","k","i","n","g">>,
    <<"f","o","c","u","s","_","m","e","m","o","r","y">>,
    <<"n","o","_","h","o","b","b","y","_","t","i","m","e">>,
    <<"m","u","s","c","l","e","_","p","a","i","n">>,
    <<"a","d","d","i","c","t","i","o","n">>,
    <<"w","o","r","k","_","a","t","_","h","o","m","e">>,
    <<"e","n","o","u","g","h","_","t","i","m","e">>,
    <<"i","g","n","o","r","e","_","p","r","o","b","l","e","m","s">>,
    <<"p","e","r","f","e","c","t","i","o","n","i","s","t">>,
    <<"b","a","d","_","t","i","m","e","_","e","s","t","i","m","a","t","e">>,
    <<"o","v","e","r","w","h","e","l","m","e","d">>,
    <<"l","o","w","_","s","e","l","f","_","e","s","t","e","e","m">>,
    <<"i","m","p","a","t","i","e","n","t">>,
    <<"h","u","r","r","i","e","d">>,
    <<"r","o","a","d","_","r","a","g","e">>,
    <<"c","o","m","p","e","t","i","t","i","v","e">>,
    <<"c","r","i","t","i","c","a","l">>,
    <<"d","i","s","t","r","a","c","t","e","d">>,
    <<"l","o","w","_","l","i","b","i","d","o">>,
    <<"t","e","e","t","h","_","g","r","i","n","d","i","n","g">>,
    <<"p","e","r","f","o","r","m","a","n","c","e","_","d","r","o","p">> }

InsomniaColumns ==
  { <<"f","a","l","l","_","a","s","l","e","e","p">>,
    <<"s","t","a","y","_","a","s","l","e","e","p">>,
    <<"e","a","r","l","y","_","r","i","s","i","n","g">>,
    <<"s","l","e","e","p","_","s","a","t","i","s","f","a","c","t","i","o","n">>,
    <<"d","a","i","l","y","_","i","m","p","a","c","t">>,
    <<"l","i","f","e","_","q","u","a","l","i","t","y">>,
    <<"s","l","e","e","p","_","c","o","n","c","e","r","n">> }

FatigueColumns ==
  { <<"s","l","e","e","p","_","d","i","s","o","r","d","e","r">>,
    <<"w","a","k","i","n","g","_","f","a","t","i","g","u","e">>,
    <<"f","o","c","u","s","_","i","s","s","u","e">>,
    <<"m","u","s","c","l","e","_","p","a","i","n">>,
    <<"b","o","d","y","_","p","a","i","n">>,
    <<"h","e","a","d","_","p","a","i","n">>,
    <<"n","e","c","k","_","s","h","o","u","l","d","e","r","_","s","t","i","f","f","n","e","s","s">>,
    <<"t","h","r","o","a","t","_","p","a","i","n">>,
    <<"m","o","t","i","o","n","_","d","i","z","z","i","n","e","s","s">>,
    <<"e","x","e","r","c","i","s","e","_","f","a","t","i","g","u","e">>,
    <<"e","y","e","_","s","e","n","s","i","t","i","v","i","t","y">>,
    <<"n","u","m","b","_","s","e","n","s","a","t","i","o","n">>,
    <<"a","n","x","i","e","t","y","_","i","s","s","u","e">>,
    <<"r","e","s","t","l","e","s","s","_","s","l","e","e","p">>,
    <<"c","o","l","d","_","s","e","n","s","i","t","i","v","i","t","y">>,
    <<"s","t","o","m","a","c","h","_","u","p","s","e","t">>,
    <<"a","l","l","e","r","g","i","c","_","r","e","a","c","t","i","o","n">> }
Range(s) == {s[i] : i \in 1..Len(s)}

\* Handlers (endpoints) of the survey API.
IsmaHandler == "submit_isma_survey"
InsomniaHandler == "submit_insomnia_survey"
FatigueHandler == "submit_fatigue_survey"
SurveyHandlers == {IsmaHandler, InsomniaHandler, FatigueHandler}

QUESTIONS(h) ==
  CASE h = IsmaHandler -> ISMA_QUESTIONS
    [] h = InsomniaHandler -> INSOMNIA_QUESTIONS
    [] h = FatigueHandler -> FATIGUE_QUESTIONS

\* Integer response columns of the table behind each handler.
Columns(h) ==
  CASE h = IsmaHandler -> IsmaColumns
    [] h = InsomniaHandler -> InsomniaColumns
    [] h = FatigueHandler -> FatigueColumns

\* __tablename__ of the model each handler inserts into.
TableOf(h) ==
  CASE h = IsmaHandler -> "isma_web"
    [] h = InsomniaHandler -> "insomnia_web"
    [] h = FatigueHandler -> "fatigue"

\* ------------------------------------------------------- key conversion
UpperCase ==
  <<"A","B","C","D","E","F","G","H","I","J","K","L","M",
    "N","O","P","Q","R","S","T","U","V","W","X","Y","Z">>
LowerCase ==
  <<"a","b","c","d","e","f","g","h","i","j","k","l","m",
    "n","o","p","q","r","s","t","u","v","w","x","y","z">>

\* str.replace(" ", "_")
replace(s) == [i \in 1..Len(s) |-> IF s[i] = " " THEN "_" ELSE s[i]]

\* str.lower()
lower(s) ==
  [i \in 1..Len(s) |->
     IF \E k \in 1..Len(UpperCase) : UpperCase[k] = s[i]
     THEN LowerCase[CHOOSE k \in 1..Len(UpperCase) : UpperCase[k] = s[i]]
     ELSE s[i]]

\* A conversion that forgets the lower-casing.
ReplaceOnlyKey(q) == replace(q)

\* q.replace(" ", "_").lower()
NormaliseKey(q) == lower(replace(q))

\* The key a handler's dict comprehension stores a response under.
KeyOf(h, q) == IF h = IsmaHandler THEN q ELSE NormaliseKey(q)

\* The converted key of every question of every handler, in list order.
ConvertedKeys ==
  [h \in SurveyHandlers |-> [i \in 1..Len(QUESTIONS(h)) |-> KeyOf(h, QUESTIONS(h)[i])]]

\* {KeyOf(q): responses[q] for q in QUESTIONS}: a later question overwrites
\* an earlier one that has the same converted key.
DictComp(h, responses) ==
  LET Q == QUESTIONS(h)
      K == ConvertedKeys[h]
      Last(k) == CHOOSE i \in 1..Len(Q) :
                   K[i] = k /\ \A j \in (i + 1)..Len(Q) : K[j] # k
  IN [k \in Range(K) |-> responses[Q[Last(k)]]]

\* ------------------------------------------------------------ validation
\* A validation that only looks for missing questions.
SupersetKeysMatch(h, responses) == Range(QUESTIONS(h)) \subseteq DOMAIN responses

\* set(QUESTIONS) != set(submission.responses.keys()) raises; this is the
\* negation: the submission passes.
KeysMatch(h, responses) == Range(QUESTIONS(h)) = DOMAIN responses

\* ------------------------------------------------------------- summation
RECURSIVE SumOver(_, _)
SumOver(f, S) ==
  IF S = {} THEN 0
  ELSE LET k == CHOOSE k \in S : TRUE IN f[k] + SumOver(f, S \ {k})

\* sum(submission.responses.values())
sum_values(responses) == SumOver(responses, DOMAIN responses)

\* -------------------------------------------------------- classification
\* The label texts (question_mn), transliterated.
IsmaLow == "Stresseer ovchlokh magadlal baga"
IsmaHigh == "Stresseer ovchlokh magadlal ondor"
IsmaVeryHigh == "Stressiin tuvshin mash ondor baina"
InsomniaNone == "Noirguidel baikhgui"
InsomniaMild == "Noirguidliin zereg baga"
InsomniaModerate == "Dund zergiin noirguideltei"
InsomniaSevere == "Noirguidliin zereg khund yavtstai"
FatigueA == "Arkhag yadargaatai"
FatigueB == "Baga zergiin arkhag yadargaatai"
FatigueC == "Dund zergiin arkhag yadargaatai"
FatigueD == "Khund zergiin arkhag yadargaatai"

\* What question_mn is when no branch of a chain assigned it.
Unbound == "<unbound>"

\* The tests of each if/elif/else chain, in order; the else branch is TRUE.
IsmaTests(s) == << s <= 5, s <= 10, TRUE >>
IsmaLabels == << IsmaLow, IsmaHigh, IsmaVeryHigh >>

\* The insomnia chain with <= where the code has <.
InsomniaTestsInclusive(s) == << s <= 8, s <= 15, s <= 22, TRUE >>
InsomniaTests(s) == << s < 8, s < 15, s < 22, TRUE >>
InsomniaLabels == << InsomniaNone, InsomniaMild, InsomniaModerate, InsomniaSevere >>

\* The fatigue chain with a last elif in place of the else.
FatigueTestsGap(s) == << s <= 10, s <= 24, s <= 51, s > 52 >>
FatigueTests(s) == << s <= 10, s <= 24, s <= 51, TRUE >>
FatigueLabels == << FatigueA, FatigueB, FatigueC, FatigueD >>

TestsOf(h, s) ==
  CASE h = IsmaHandler -> IsmaTests(s)
    [] h = InsomniaHandler -> InsomniaTests(s)
    [] h = FatigueHandler -> FatigueTests(s)

LabelsOf(h) ==
  CASE h = IsmaHandler -> IsmaLabels
    [] h = InsomniaHandler -> InsomniaLabels
    [] h = FatigueHandler -> FatigueLabels

\* Branch i of an if/elif chain runs iff its test holds and no earlier one did.
Taken(tests, i) == tests[i] /\ \A j \in 1..(i - 1) : ~tests[j]

\* The branches of handler h's chain that run for total s.
BranchesTaken(h, s) == {i \in 1..Len(TestsOf(h, s)) : Taken(TestsOf(h, s), i)}

\* question_mn after the chain.
Classify(h, s) ==
  IF BranchesTaken(h, s) = {} THEN Unbound
  ELSE LabelsOf(h)[CHOOSE i \in BranchesTaken(h, s) : TRUE]

\* -------------------------------------------------------- HTTP responses
NoResponse == [status_code |-> 0, detail |-> "", question_mn |-> ""]

\* HTTPException(status_code=400, detail=...)
DetailOf(h) ==
  IF h = FatigueHandler
  THEN "Missing or extra questions in Fatigue submission"
  ELSE "Missing or extra questions in submission"
\* A validation error that tells missing keys from unexpected ones.
ValidationErrorByKind(h, responses) ==
  [status_code |-> 400,
   detail |-> IF Range(QUESTIONS(h)) \ DOMAIN responses # {}
              THEN "Missing questions in submission"
              ELSE "Unexpected questions in submission",
   question_mn |-> ""]
ValidationError(h, responses) ==
  [status_code |-> 400, detail |-> DetailOf(h), question_mn |-> ""]

\* An exception no handler catches: the framework answers 500.
InternalServerError ==
  [status_code |-> 500, detail |-> "Internal Server Error", question_mn |-> ""]

\* return {"question_mn": question_mn}
Returned(label) == [status_code |-> 200, detail |-> "", question_mn |-> label]

\* --------------------------------------------------------------- inputs
EmptyMap == [k \in {} |-> 0]

\* SurveySubmission(responses, user_id)
Sub(responses, uid) == [responses |-> responses, user_id |-> uid]
NoSubmission == Sub(EmptyMap, 0)

\* Answers v to the first n questions and v - 1 to the others.
Stair(Q, n, v) ==
  [k \in Range(Q) |-> IF \E i \in 1..n : i <= Len(Q) /\ Q[i] = k THEN v ELSE v - 1]

Restrict(f, S) == [k \in S |-> f[k]]
Extend(f, e, v) == [k \in DOMAIN f \cup {e} |-> IF k = e THEN v ELSE f[k]]

Bogus == <<"b","o","g","u","s">>
ExtraKeys(h) ==
  {Bogus, INSOMNIA_QUESTIONS[1], NormaliseKey(INSOMNIA_QUESTIONS[1]),
   ISMA_QUESTIONS[1]} \ Range(QUESTIONS(h))

StairSteps == {0, 1}

ValidSubs(h) ==
  {Sub(Stair(QUESTIONS(h), n, v), 1) : n \in StairSteps, v \in 1..MaxVal}
  \cup {Sub(Stair(QUESTIONS(h), 1, 1), u) : u \in 1..MaxUser}
MissingSubs(h) ==
  {Sub(Restrict(Stair(QUESTIONS(h), 1, 1), Range(QUESTIONS(h)) \ {q}), 1) :
     q \in Range(QUESTIONS(h))}
ExtraSubs(h) ==
  {Sub(Extend(Stair(QUESTIONS(h), 1, 1), e, 1), 1) : e \in ExtraKeys(h)}
OtherSubs(h) ==
  {Sub(EmptyMap, 1),
   Sub(Extend(Restrict(Stair(QUESTIONS(h), 1, 1),
                       Range(QUESTIONS(h)) \ {QUESTIONS(h)[1]}), Bogus, 1), 1)}

\* Submissions drawn when requests are handled one at a time.
Inputs(h) == ValidSubs(h) \cup MissingSubs(h) \cup ExtraSubs(h) \cup OtherSubs(h)

Requests == UNION {{<<h, s>> : s \in Inputs(h)} : h \in SurveyHandlers}

\* Submissions drawn when requests are handled concurrently.
ConcInputs(h) ==
  {Sub(Stair(QUESTIONS(h), 0, 1), 1),
   Sub(Stair(QUESTIONS(h), 1, 2), 2),
   Sub(Restrict(Stair(QUESTIONS(h), 1, 1), Range(QUESTIONS(h)) \ {QUESTIONS(h)[1]}), 1),
   Sub(Extend(Stair(QUESTIONS(h), 1, 1), Bogus, 1), 2)}
ConcRequests == UNION {{<<h, s>> : s \in ConcInputs(h)} : h \in SurveyHandlers}

\* ---------------------------------------------------------------- state
VARIABLES
  pc,                \* per handler invocation: the step it is at
  handler,           \* per handler invocation: the endpoint function running
  submission,        \* the SurveySubmission argument
  total_sum,         \* the local total_sum
  question_mn,       \* the local question_mn
  data,              \* the dict isma_data / insomnia_data / fatigue_data
  new_row,           \* the inserted object after commit and refresh
  response,          \* what the invocation answered
  tables,            \* isma_web, insomnia_web, fatigue: the rows, in insert order
  nreq,              \* number of requests received so far
  user,              \* the UserCreate argument
  user_information,  \* the User table: the rows, in insert order
  cl_in,             \* a handler and a total handed to its classification alone
  cl_out             \* the label that classification produced

vars == << pc, handler, submission, total_sum, question_mn, data, new_row,
           response, tables, nreq, user, user_information, cl_in, cl_out >>

surveyLocals == << submission, total_sum, question_mn, data, new_row >>
scoreVars == << cl_in, cl_out >>

NoData == [cols |-> EmptyMap, user_id |-> 0, total_sum |-> 0, question_mn |-> ""]
NoRow == [id |-> 0, cols |-> EmptyMap, user_id |-> 0, total_sum |-> 0, question_mn |-> ""]

\* UserCreate(username, password, last_name, first_name, gender, email,
\* registry_number, country)
None == "<None>"
UserCreate(n, e, r, c) ==
  [username |-> n, password |-> "pw", last_name |-> "ln", first_name |-> "fn",
   gender |-> "g", email |-> e, registry_number |-> r, country |-> c]
NoUser == UserCreate("", "", "", None)

Usernames == {"ann", "bob"}
Emails == {"a@x.mn", "b@x.mn"}
Registries == {"AA00000001", "BB00000002"}
Countries == {"", "MN"}
UserInputs ==
  {UserCreate(n, e, r, c) : n \in Usernames, e \in Emails, r \in Registries,
                            c \in Countries}

Init ==
  /\ pc = [p \in Procs |-> "idle"]
  /\ handler = [p \in Procs |-> "none"]
  /\ submission = [p \in Procs |-> NoSubmission]
  /\ total_sum = [p \in Procs |-> 0]
  /\ question_mn = [p \in Procs |-> ""]
  /\ data = [p \in Procs |-> NoData]
  /\ new_row = [p \in Procs |-> NoRow]
  /\ response = [p \in Procs |-> NoResponse]
  /\ tables = [isma_web |-> << >>, insomnia_web |-> << >>, fatigue |-> << >>]
  /\ nreq = 0
  /\ user = [p \in Procs |-> NoUser]
  /\ user_information = << >>
  /\ cl_in = [handler |-> "none", total_sum |-> 0]
  /\ cl_out = ""

\* ------------------------------------------------------ survey handlers
\* A request for a survey endpoint arrives with submission s.
Receive(p, R) ==
  /\ pc[p] \in {"idle", "done"}
  /\ nreq < MaxReq
  /\ \E r \in R :
       /\ handler' = [handler EXCEPT ![p] = r[1]]
       /\ submission' = [submission EXCEPT ![p] = r[2]]
  /\ pc' = [pc EXCEPT ![p] = "validate"]
  /\ total_sum' = [total_sum EXCEPT ![p] = 0]
  /\ question_mn' = [question_mn EXCEPT ![p] = ""]
  /\ data' = [data EXCEPT ![p] = NoData]
  /\ new_row' = [new_row EXCEPT ![p] = NoRow]
  /\ response' = [response EXCEPT ![p] = NoResponse]
  /\ nreq' = nreq + 1
  /\ UNCHANGED << tables, user, user_information, scoreVars >>

\* An exception leaves the handler: nothing more of it runs.
Raise(p, resp) ==
  /\ response' = [response EXCEPT ![p] = resp]
  /\ pc' = [pc EXCEPT ![p] = "done"]

\* A validation whose error is built but never raised: the handler goes on.
ValidateNoRaise(p) ==
  /\ pc[p] = "validate"
  /\ handler[p] \in SurveyHandlers
  /\ pc' = [pc EXCEPT ![p] = "sum"]
  /\ UNCHANGED << handler, surveyLocals, response, tables, nreq, user,
                  user_information, scoreVars >>

\* if set(QUESTIONS) != set(submission.responses.keys()): raise HTTPException(400)
Validate(p) ==
  /\ pc[p] = "validate"
  /\ handler[p] \in SurveyHandlers
  /\ IF KeysMatch(handler[p], submission[p].responses)
     THEN /\ pc' = [pc EXCEPT ![p] = "sum"]
          /\ UNCHANGED response
     ELSE Raise(p, ValidationError(handler[p], submission[p].responses))
  /\ UNCHANGED << handler, surveyLocals, tables, nreq, user, user_information,
                  scoreVars >>

\* A total kept in one module-level variable that all handlers write.
SumShared(p) ==
  /\ pc[p] = "sum"
  /\ total_sum' = [q \in Procs |-> sum_values(submission[p].responses)]
  /\ pc' = [pc EXCEPT ![p] = "classify"]
  /\ UNCHANGED << handler, submission, question_mn, data, new_row, response,
                  tables, nreq, user, user_information, scoreVars >>

\* total_sum = sum(submission.responses.values())
Sum(p) ==
  /\ pc[p] = "sum"
  /\ total_sum' = [total_sum EXCEPT ![p] = sum_values(submission[p].responses)]
  /\ pc' = [pc EXCEPT ![p] = "classify"]
  /\ UNCHANGED << handler, submission, question_mn, data, new_row, response,
                  tables, nreq, user, user_information, scoreVars >>

\* the if/elif/else chain that sets question_mn
ClassifyStep(p) ==
  /\ pc[p] = "classify"
  /\ question_mn' = [question_mn EXCEPT ![p] = Classify(handler[p], total_sum[p])]
  /\ pc' = [pc EXCEPT ![p] = "build"]
  /\ UNCHANGED << handler, submission, total_sum, data, new_row, response,
                  tables, nreq, user, user_information, scoreVars >>

\* The attribute of the submission each handler reads the user id from.
UserIdAttribute(h) == IF h = IsmaHandler THEN "user_idisma_data" ELSE "user_id"

\* The dict handed to the model constructor.
RowData(p) ==
  [cols |-> DictComp(handler[p], submission[p].responses),
   user_id |-> submission[p].user_id,
   total_sum |-> total_sum[p],
   question_mn |-> question_mn[p]]

\* What stops the building of the row: a KeyError of the dict comprehension,
\* an AttributeError of the submission, an unbound question_mn, or a
\* TypeError of the model constructor for a keyword that is no column.
BuildFails(p) ==
  \/ \E q \in Range(QUESTIONS(handler[p])) : q \notin DOMAIN submission[p].responses
  \/ UserIdAttribute(handler[p]) \notin DOMAIN submission[p]
  \/ question_mn[p] = Unbound
  \/ ~(DOMAIN DictComp(handler[p], submission[p].responses) \subseteq Columns(handler[p]))

\* xxx_data = {...}; xxx_data["user_id"] = ...; new_xxx = Model(**xxx_data)
Build(p) ==
  /\ pc[p] = "build"
  /\ IF BuildFails(p)
     THEN /\ Raise(p, InternalServerError)
          /\ UNCHANGED data
     ELSE /\ data' = [data EXCEPT ![p] = RowData(p)]
          /\ pc' = [pc EXCEPT ![p] = "persist"]
          /\ UNCHANGED response
  /\ UNCHANGED << handler, submission, total_sum, question_mn, new_row, tables,
                  nreq, user, user_information, scoreVars >>

\* The row the database stores for a pending object: the next serial id.
Inserted(t, d) ==
  [id |-> Len(t) + 1, cols |-> d.cols, user_id |-> d.user_id,
   total_sum |-> d.total_sum, question_mn |-> d.question_mn]

\* db.add(new_xxx); db.commit(); db.refresh(new_xxx); return {"question_mn": ...}
Persist(p) ==
  /\ pc[p] = "persist"
  /\ LET t == TableOf(handler[p])
         row == Inserted(tables[t], data[p])
     IN /\ tables' = [tables EXCEPT ![t] = Append(@, row)]
        /\ new_row' = [new_row EXCEPT ![p] = row]
  /\ response' = [response EXCEPT ![p] = Returned(question_mn[p])]
  /\ pc' = [pc EXCEPT ![p] = "done"]
  /\ UNCHANGED << handler, submission, total_sum, question_mn, data, nreq, user,
                  user_information, scoreVars >>

SurveyStep(p) == Validate(p) \/ Sum(p) \/ ClassifyStep(p) \/ Build(p) \/ Persist(p)

\* One worker, one event loop: a handler runs to its end before the next
\* request is taken.
Next == Receive(1, Requests) \/ \E p \in Procs : SurveyStep(p)

Spec == Init /\ [][Next]_vars

\* Several workers over one database: the steps of different requests
\* interleave.
ReceiveConc(p) == pc[p] = "idle" /\ Receive(p, ConcRequests)
NextConc == \E p \in Procs : ReceiveConc(p) \/ SurveyStep(p)

SpecConc == Init /\ [][NextConc]_vars

\* ---------------------------------------------------------- create_user
\* A row with the given value in a unique column already exists:
\* db.query(User).filter(User.<column> == value).first()
Exists(column, value) ==
  \E i \in 1..Len(user_information) : user_information[i][column] = value

\* new_user = User(account_name=user.username, ...)
NewUser(u) ==
  [account_name |-> u.username, user_password |-> u.password,
   surname |-> u.last_name, firstname |-> u.first_name, gender |-> u.gender,
   email |-> u.email, registerid |-> u.registry_number,
   country |-> IF u.country \notin {"", None} THEN u.country ELSE None]

\* A User table whose columns carry no unique constraint.
UniqueNotEnforced(row) == TRUE

\* The unique=True columns of User: the insert of row violates none of them.
UniqueColumns == {"account_name", "email", "registerid"}
UniqueHolds(row) == \A c \in UniqueColumns : ~Exists(c, row[c])

\* A request for POST /users/ arrives.
ReceiveUser(p) ==
  /\ pc[p] = "idle"
  /\ nreq < MaxReq
  /\ \E u \in UserInputs : user' = [user EXCEPT ![p] = u]
  /\ handler' = [handler EXCEPT ![p] = "create_user"]
  /\ pc' = [pc EXCEPT ![p] = "check_username"]
  /\ nreq' = nreq + 1
  /\ UNCHANGED << surveyLocals, response, tables, user_information, scoreVars >>

\* One of the three lookups: 400 when a row has the value, else go on.
Check(p, at, column, value, detail, next) ==
  /\ pc[p] = at
  /\ IF Exists(column, value)
     THEN Raise(p, [status_code |-> 400, detail |-> detail, question_mn |-> ""])
     ELSE /\ pc' = [pc EXCEPT ![p] = next]
          /\ UNCHANGED response
  /\ UNCHANGED << handler, surveyLocals, tables, nreq, user, user_information,
                  scoreVars >>

CheckUsername(p) ==
  Check(p, "check_username", "account_name", user[p].username,
        "Username already registered", "check_email")
CheckEmail(p) ==
  Check(p, "check_email", "email", user[p].email,
        "Email already registered", "check_registerid")
CheckRegisterId(p) ==
  Check(p, "check_registerid", "registerid", user[p].registry_number,
        "Register ID already registered", "commit")

\* db.add(new_user); db.commit(); db.refresh(new_user); return user
\* The commit fails with an IntegrityError when a unique column clashes.
CommitUser(p) ==
  /\ pc[p] = "commit"
  /\ IF UniqueHolds(NewUser(user[p]))
     THEN /\ user_information' =
               Append(user_information,
                      [user_id |-> Len(user_information) + 1] @@ NewUser(user[p]))
          /\ Raise(p, Returned(""))
     ELSE /\ Raise(p, InternalServerError)
          /\ UNCHANGED user_information
  /\ UNCHANGED << handler, surveyLocals, tables, nreq, user, scoreVars >>

create_user(p) ==
  CheckUsername(p) \/ CheckEmail(p) \/ CheckRegisterId(p) \/ CommitUser(p)

NextUsers == \E p \in Procs : ReceiveUser(p) \/ create_user(p)

SpecUsers == Init /\ [][NextUsers]_vars

\* ------------------------------------------- classification on its own
SumRange == (0 - BelowZero)..MaxSum

InitScore ==
  /\ pc = [p \in Procs |-> "idle"]
  /\ handler = [p \in Procs |-> "none"]
  /\ submission = [p \in Procs |-> NoSubmission]
  /\ total_sum = [p \in Procs |-> 0]
  /\ question_mn = [p \in Procs |-> ""]
  /\ data = [p \in Procs |-> NoData]
  /\ new_row = [p \in Procs |-> NoRow]
  /\ response = [p \in Procs |-> NoResponse]
  /\ tables = [isma_web |-> << >>, insomnia_web |-> << >>, fatigue |-> << >>]
  /\ nreq = 0
  /\ user = [p \in Procs |-> NoUser]
  /\ user_information = << >>
  /\ cl_in \in [handler : SurveyHandlers, total_sum : SumRange]
  /\ cl_out = ""

\* The chain of cl_in.handler is run on cl_in.total_sum.
ApplyClassify ==
  /\ cl_out = ""
  /\ cl_out' = Classify(cl_in.handler, cl_in.total_sum)
  /\ UNCHANGED << pc, handler, surveyLocals, response, tables, nreq, user,
                  user_information, cl_in >>

NextScore == ApplyClassify

SpecScore == InitScore /\ [][NextScore]_vars

\* ======================================================================
\* Properties
\* ======================================================================
IsSurvey(p) == handler[p] \in SurveyHandlers
KeySet(p) == DOMAIN submission[p].responses
QuestionSet(h) == {QUESTIONS(h)[i] : i \in 1..Len(QUESTIONS(h))}
MissingKeys(p) == QuestionSet(handler[p]) \ KeySet(p)
UnexpectedKeys(p) == KeySet(p) \ QuestionSet(handler[p])

\* The invocation ended with the validation error.
Rejected(p) == IsSurvey(p) /\ pc[p] = "done" /\ response[p].status_code = 400

\* The invocation ended with the label returned.
Succeeded(p) == IsSurvey(p) /\ pc[p] = "done" /\ response[p].status_code = 200

\* The row of the handler's table that the invocation inserted.
StoredRow(p) == tables[TableOf(handler[p])][new_row[p].id]

\* ---------------------------------------------------------------- C1
\* C1: a submission is rejected by validation if and only if the key set of
\* its responses differs from the question set of the handler's instrument;
\* with the key sets equal the handler goes on past validation.
C1_ValidationIff ==
  \A p \in Procs :
    (IsSurvey(p) /\ pc[p] \notin {"idle", "validate"})
      => (Rejected(p) <=> KeySet(p) # QuestionSet(handler[p]))

\* C1 witness: a submission that lacks exactly one required key was rejected.
C1_Witness ==
  \E p \in Procs :
    /\ Rejected(p)
    /\ UnexpectedKeys(p) = {}
    /\ Cardinality(MissingKeys(p)) = 1

\* ---------------------------------------------------------------- C2
\* The inserted row carries the submission's user_id, responses, total and
\* label, and the label returned is the stored one.
RowCarries(p) ==
  /\ new_row[p].id \in 1..Len(tables[TableOf(handler[p])])
  /\ StoredRow(p) = new_row[p]
  /\ StoredRow(p).user_id = submission[p].user_id
  /\ StoredRow(p).total_sum = total_sum[p]
  /\ StoredRow(p).question_mn = question_mn[p]
  /\ response[p].question_mn = StoredRow(p).question_mn
  /\ \A q \in QuestionSet(handler[p]) :
       StoredRow(p).cols[KeyOf(handler[p], q)] = submission[p].responses[q]

\* C2: for each of the three instruments, every submission that passes
\* validation completes successfully and has its row in the instrument's
\* table, carrying user_id, responses, total_sum and the returned label.
C2_ValidSubmissionStored ==
  \A p \in Procs :
    (IsSurvey(p) /\ pc[p] = "done" /\ KeySet(p) = QuestionSet(handler[p]))
      => (Succeeded(p) /\ RowCarries(p))

\* C2 for the Insomnia and Fatigue handlers alone.
C2_InsomniaFatigueStored ==
  \A p \in Procs :
    (handler[p] \in {InsomniaHandler, FatigueHandler} /\ pc[p] = "done"
       /\ KeySet(p) = QuestionSet(handler[p]))
      => (Succeeded(p) /\ RowCarries(p))

\* ---------------------------------------------------------------- C3
\* Every stored row's total_sum is the sum of its stored response columns.
C3_StoredSums ==
  \A t \in DOMAIN tables : \A i \in 1..Len(tables[t]) :
    tables[t][i].total_sum = SumOver(tables[t][i].cols, DOMAIN tables[t][i].cols)

AllOnes == [k \in QuestionSet(IsmaHandler) |-> 1]

\* C3: every stored row of every instrument has total_sum equal to the sum
\* of its stored responses, and an ISMA submission answering 1 to all 24
\* questions is stored with total_sum 24.
C3_SumsAndIsmaExample ==
  /\ C3_StoredSums
  /\ \A p \in Procs :
       (handler[p] = IsmaHandler /\ pc[p] = "done"
          /\ submission[p].responses = AllOnes)
         => \E i \in 1..Len(tables.isma_web) :
              /\ tables.isma_web[i].total_sum = 24
              /\ tables.isma_web[i].cols = AllOnes

\* ---------------------------------------------------------------- C4
\* The band table of the specification.
BandTable(h, s) ==
  CASE h = IsmaHandler ->
         (CASE s <= 5 -> IsmaLow
            [] s >= 6 /\ s <= 10 -> IsmaHigh
            [] s >= 11 -> IsmaVeryHigh)
    [] h = InsomniaHandler ->
         (CASE s < 8 -> InsomniaNone
            [] s >= 8 /\ s <= 14 -> InsomniaMild
            [] s >= 15 /\ s <= 21 -> InsomniaModerate
            [] s >= 22 -> InsomniaSevere)
    [] h = FatigueHandler ->
         (CASE s <= 10 -> FatigueA
            [] s >= 11 /\ s <= 24 -> FatigueB
            [] s >= 25 /\ s <= 51 -> FatigueC
            [] s >= 52 -> FatigueD)

\* C4: for every total, the label a handler's chain chooses is the band the
\* table prescribes, the boundary values 5/6/10/11, 7/8/14/15/21/22 and
\* 10/11/24/25/51/52 included.
C4_BandsAsTabled ==
  cl_out # "" => cl_out = BandTable(cl_in.handler, cl_in.total_sum)

\* C4 witness: the insomnia chain was run on the boundary total 22.
C4_Witness ==
  /\ cl_in.handler = InsomniaHandler
  /\ cl_in.total_sum = 22
  /\ cl_out = InsomniaSevere

\* ---------------------------------------------------------------- C5
\* C5: for every total from 0 up, exactly one branch of the handler's chain
\* runs, so the label is one of the instrument's labels and is never left
\* unassigned.
C5_ExactlyOneBand ==
  (cl_out # "" /\ cl_in.total_sum >= 0)
    => /\ Cardinality(BranchesTaken(cl_in.handler, cl_in.total_sum)) = 1
       /\ cl_out # Unbound
       /\ cl_out \in Range(LabelsOf(cl_in.handler))

\* C5 witness: the fatigue chain was run on 52, the first total of its last
\* band.
C5_Witness ==
  /\ cl_in.handler = FatigueHandler
  /\ cl_in.total_sum = 52
  /\ cl_out = FatigueD

\* ---------------------------------------------------------------- C6
CompleteRow(h, row) ==
  /\ DOMAIN row.cols = Columns(h)
  /\ row.question_mn \in Range(LabelsOf(h))

\* A step stores nothing, or appends one complete row to one table.
StoresNothingOrOneRow ==
  \/ tables' = tables
  \/ \E h \in SurveyHandlers :
       /\ Len(tables'[TableOf(h)]) = Len(tables[TableOf(h)]) + 1
       /\ SubSeq(tables'[TableOf(h)], 1, Len(tables[TableOf(h)])) = tables[TableOf(h)]
       /\ CompleteRow(h, tables'[TableOf(h)][Len(tables'[TableOf(h)])])
       /\ \A t \in DOMAIN tables : t # TableOf(h) => tables'[t] = tables[t]

\* No step of an invocation whose key set differs from the question set
\* changes a table.
InvalidStoresNothing ==
  \A p \in Procs :
    (pc'[p] # pc[p] /\ handler'[p] \in SurveyHandlers
       /\ DOMAIN submission'[p].responses # QuestionSet(handler'[p]))
      => tables' = tables

\* C6: a submission that fails validation leaves every table unchanged at
\* every step of its handling, and every step of any handler stores either
\* nothing or one complete row.
C6_AllOrNothing == [][InvalidStoresNothing /\ StoresNothingOrOneRow]_vars

\* C6 witness: a submission was rejected while the store held a row of an
\* earlier submission.
C6_Witness ==
  \E p \in Procs :
    /\ Rejected(p)
    /\ \E t \in DOMAIN tables : Len(tables[t]) = 1

\* ---------------------------------------------------------------- C7
\* C7 as stated: rejections of one handler that differ in their missing or
\* unexpected keys are distinguishable outcomes.
C7_ErrorsIdentifyKeys ==
  \A p, q \in Procs :
    (Rejected(p) /\ Rejected(q) /\ handler[p] = handler[q]
       /\ (MissingKeys(p) # MissingKeys(q) \/ UnexpectedKeys(p) # UnexpectedKeys(q)))
      => response[p] # response[q]

\* C7 as amended: every rejection is the status 400 with the handler's one
\* fixed detail text, whatever keys are missing or unexpected.
C7_OneGenericError ==
  \A p \in Procs :
    Rejected(p) =>
      response[p] = [status_code |-> 400, detail |-> DetailOf(handler[p]),
                     question_mn |-> ""]

\* C7 witness: a missing-key rejection and an extra-key rejection of the
\* same handler, with the same response.
C7_Witness ==
  \E p, q \in Procs :
    /\ Rejected(p) /\ Rejected(q) /\ handler[p] = handler[q]
    /\ MissingKeys(p) # {} /\ UnexpectedKeys(p) = {}
    /\ MissingKeys(q) = {} /\ UnexpectedKeys(q) # {}
    /\ response[p] = response[q]

\* ---------------------------------------------------------------- C8
\* What handler h does with submission s when no other request runs: the
\* response, and the row it stores (without its id) if it stores one.
RunAlone(h, s) ==
  LET total == sum_values(s.responses)
      label == Classify(h, total)
      cols == DictComp(h, s.responses)
  IN IF DOMAIN s.responses # QuestionSet(h)
     THEN [response |-> ValidationError(h, s.responses), stores |-> FALSE,
           row |-> NoData]
     ELSE IF \/ UserIdAttribute(h) \notin DOMAIN s
             \/ label = Unbound
             \/ ~(DOMAIN cols \subseteq Columns(h))
          THEN [response |-> InternalServerError, stores |-> FALSE, row |-> NoData]
          ELSE [response |-> Returned(label), stores |-> TRUE,
                row |-> [cols |-> cols, user_id |-> s.user_id,
                         total_sum |-> total, question_mn |-> label]]

WithoutId(row) ==
  [cols |-> row.cols, user_id |-> row.user_id, total_sum |-> row.total_sum,
   question_mn |-> row.question_mn]

\* C8: under any interleaving of the steps of concurrent requests, each
\* request's total, label, response and stored row are those it has when
\* run alone on its own handler and submission.
C8_AsIfAlone ==
  \A p \in Procs :
    IsSurvey(p) =>
      LET alone == RunAlone(handler[p], submission[p])
      IN /\ pc[p] \in {"classify", "build", "persist"}
              => total_sum[p] = sum_values(submission[p].responses)
         /\ pc[p] \in {"build", "persist"}
              => question_mn[p] = Classify(handler[p], sum_values(submission[p].responses))
         /\ pc[p] = "done" =>
              /\ response[p] = alone.response
              /\ alone.stores =>
                   /\ new_row[p].id \in 1..Len(tables[TableOf(handler[p])])
                   /\ StoredRow(p) = new_row[p]
                   /\ WithoutId(StoredRow(p)) = alone.row
              /\ ~alone.stores => new_row[p] = NoRow

\* C8 witness: two requests of one handler with different totals were
\* handled concurrently and both stored, the later-numbered one first.
C8_Witness ==
  \E p, q \in Procs :
    /\ p < q
    /\ Succeeded(p) /\ Succeeded(q) /\ handler[p] = handler[q]
    /\ total_sum[p] # total_sum[q]
    /\ new_row[q].id < new_row[p].id

\* ---------------------------------------------------------------- C9
\* The conversion is one-to-one on the declared keys and onto the columns.
KeysOntoColumns ==
  \A h \in SurveyHandlers :
    /\ \A i, j \in 1..Len(QUESTIONS(h)) :
         ConvertedKeys[h][i] = ConvertedKeys[h][j] => i = j
    /\ Range(ConvertedKeys[h]) = Columns(h)
    /\ h = IsmaHandler => ConvertedKeys[h] = QUESTIONS(h)

\* C9: key normalisation is total and injective over each instrument's
\* declared keys and lands exactly on the response columns of its table,
\* and the value stored in a column is the value submitted under the key
\* that maps to it.
C9_KeyNormalisation ==
  /\ KeysOntoColumns
  /\ \A p \in Procs :
       Succeeded(p) =>
         \A i \in 1..Len(QUESTIONS(handler[p])) :
           StoredRow(p).cols[ConvertedKeys[handler[p]][i]]
             = submission[p].responses[QUESTIONS(handler[p])[i]]

\* C9 witness: a fatigue submission whose first two answers differ was
\* stored, "Sleep Disorder" in column sleep_disorder.
C9_Witness ==
  \E p \in Procs :
    /\ Succeeded(p)
    /\ handler[p] = FatigueHandler
    /\ submission[p].responses[FATIGUE_QUESTIONS[1]]
         # submission[p].responses[FATIGUE_QUESTIONS[2]]
    /\ StoredRow(p).cols[<<"s","l","e","e","p","_","d","i","s","o","r","d","e","r">>]
         = submission[p].responses[FATIGUE_QUESTIONS[1]]

\* ---------------------------------------------------------------- C10
UsersUnique ==
  \A i, j \in 1..Len(user_information) :
    i # j =>
      /\ user_information[i].account_name # user_information[j].account_name
      /\ user_information[i].email # user_information[j].email
      /\ user_information[i].registerid # user_information[j].registerid

\* A stored user has the username, email or registry number of u.
Clashes(u) ==
  \E i \in 1..Len(user_information) :
    \/ user_information[i].account_name = u.username
    \/ user_information[i].email = u.email
    \/ user_information[i].registerid = u.registry_number

\* A create_user call that ends on a clash ends in an error and changes
\* nothing; one that ends with all three values fresh stores one new user;
\* no other step changes the table.
CreateUserStep ==
  /\ \A p \in Procs :
       (handler[p] = "create_user" /\ pc[p] # "done" /\ pc'[p] = "done") =>
         IF Clashes(user[p])
         THEN /\ user_information' = user_information
              /\ response'[p].status_code \in {400, 500}
         ELSE /\ Len(user_information') = Len(user_information) + 1
              /\ SubSeq(user_information', 1, Len(user_information)) = user_information
              /\ user_information'[Len(user_information')].account_name = user[p].username
              /\ user_information'[Len(user_information')].email = user[p].email
              /\ user_information'[Len(user_information')].registerid
                   = user[p].registry_number
              /\ response'[p].status_code = 200
  /\ user_information' # user_information
       => \E p \in Procs : pc[p] = "commit" /\ pc'[p] = "done"

\* C10: after any interleaving of create_user calls no two stored users
\* share an account_name, an email or a registerid; a call that clashes with
\* a stored user is rejected and leaves the table unchanged, and a call
\* with all three values fresh stores exactly one new user.
C10_UniqueUsers == []UsersUnique /\ [][CreateUserStep]_vars

\* C10 witness: two calls raced past the lookups and the commit of the
\* second failed on a unique column.
C10_Witness ==
  \E p \in Procs :
    /\ handler[p] = "create_user"
    /\ pc[p] = "done"
    /\ response[p].status_code = 500
    /\ Len(user_information) >= 1
====
